---------------------------- MODULE Spec2Model ----------------------------
(***************************************************************************)
(* Model of src/App.tsx: a lazily paginated table of artworks with a       *)
(* cross-page selection kept in two sets (selectedItems / unselectedItems) *)
(* and a "select first N" count (selectedCount) that an effect fills from  *)
(* the visible page.                                                       *)
(*                                                                         *)
(* React semantics assumed by the model:                                   *)
(*  - an event handler reads the state of the last render and its setState *)
(*    calls are applied together (one atomic action per handler);          *)
(*  - useEffect(f, deps) runs f after a render in which a dependency got a *)
(*    new identity; every `new Set(...)` and every fetched array is a new  *)
(*    identity, a number is compared by value;                             *)
(*  - the effect of a render runs before the next event is handled, except *)
(*    when the effect only re-schedules itself without changing any value  *)
(*    (the render loop then yields to the event loop between iterations).  *)
(* Each fetch is a promise that resolves or rejects at any later time, in  *)
(* any order with respect to the other fetches.                            *)
(***************************************************************************)
EXTENDS Integers, Sequences, FiniteSets

\* ------------------------------------------------------------------ bounds
\* Number of records the remote collection holds.
TotalRecords == 4
\* Number of records the remote API puts on one page.
PageSize == 2
\* Largest number of page fetches outstanding at one time.
MaxInFlight == 2

\* ------------------------------------------------------ remote collection
Ids == 1..TotalRecords
NumPages == (TotalRecords + PageSize - 1) \div PageSize
Pages == 1..NumPages
\* Largest N typed into the "how many rows" input: one more than the collection.
MaxTarget == TotalRecords + 1

Min(a, b) == IF a <= b THEN a ELSE b

\* The ids the API returns for page p, in the collection's stable order.
PageIds(p) ==
    [i \in 1..(Min(p * PageSize, TotalRecords) - (p - 1) * PageSize)
        |-> (p - 1) * PageSize + i]

SeqToSet(s) == {s[i] : i \in 1..Len(s)}

\* ------------------------------------------------------------------- state
VARIABLES
    artworks,          \* ids of the rows of the visible page, in order
    isLoading,
    currentPage,
    selectedCount,
    selectedItems,
    unselectedItems,
    inflight,          \* pages of the fetches not yet settled, oldest first
    effectPending,     \* the auto-select effect is scheduled to run
    \* History variables, read only by the properties below:
    latestPending,     \* the most recently issued fetch is still in inflight
    lastEvent,         \* kind of the last handler / fetch completion
    prevCount,         \* selectedCount before the last handler / completion
    prevSize,          \* selectedItems.size before the last handler / completion
    fillPages,         \* k: pages 1..k came in order since the last bulk
                       \* submit with no manual edit (0: none yet); else -1
    lastId,            \* the row of the last event if it was a row toggle, else 0
    lastPair           \* the last two events were toggles of one row:
                       \* "same" handler, "inverse" handlers; else "none"

vars == <<artworks, isLoading, currentPage, selectedCount, selectedItems,
          unselectedItems, inflight, latestPending, effectPending,
          lastEvent, prevCount, prevSize, fillPages, lastId, lastPair>>

selection == <<selectedCount, selectedItems, unselectedItems>>
toggleHistory == <<lastId, lastPair>>

\* History of the row toggles: a toggle of row id by the handler `kind`.
noteToggle(kind, id) ==
    /\ lastId' = id
    /\ lastPair' = IF lastId # id THEN "none"
                   ELSE IF lastEvent = kind THEN "same" ELSE "inverse"

\* History of the row toggles: any other event.
noteOther == lastId' = 0 /\ lastPair' = "none"
fetchState == <<isLoading, currentPage, inflight, latestPending>>


\* ------------------------------------------------- auto-select effect body
\* The for-loop of the effect: walks ids in order, adds every id that is in
\* neither set, stops as soon as the running count reaches the target.
RECURSIVE autoSelectLoop(_, _, _, _, _)
autoSelectLoop(ids, newSelected, currentlySelected, unselected, count) ==
    IF ids = <<>> THEN newSelected
    ELSE LET id == Head(ids) IN
         IF id \notin newSelected /\ id \notin unselected
         THEN IF currentlySelected + 1 >= count
              THEN newSelected \cup {id}
              ELSE autoSelectLoop(Tail(ids), newSelected \cup {id},
                                  currentlySelected + 1, unselected, count)
         ELSE autoSelectLoop(Tail(ids), newSelected, currentlySelected,
                             unselected, count)

\* Mutant of autoSelectReturnsEarly: the size check is missing.
autoSelectReturnsEarlyNoSizeCheck(selected, count) == count = 0

\* The early returns of the effect: `!selectedCount`, then size >= selectedCount.
autoSelectReturnsEarly(selected, count) ==
    count = 0 \/ Cardinality(selected) >= count

\* Mutant of autoSelect: the loop breaks one id too late.
autoSelectOvershoots(availableIds, selected, unselected, count) ==
    autoSelectLoop(availableIds, selected, Cardinality(selected), unselected, count + 1)

\* Mutant of autoSelect: the visible ids are walked from the last to the first.
RECURSIVE Reverse(_)
Reverse(ids) == IF ids = <<>> THEN <<>> ELSE Append(Reverse(Tail(ids)), Head(ids))
autoSelectBackwards(availableIds, selected, unselected, count) ==
    autoSelectLoop(Reverse(availableIds), selected, Cardinality(selected),
                   unselected, count)

\* Mutant of autoSelect: newSelected starts empty instead of as a copy.
autoSelectFromEmpty(availableIds, selected, unselected, count) ==
    autoSelectLoop(availableIds, {}, Cardinality(selected), unselected, count)

\* The set the effect passes to setSelectedItems when it does not return early.
autoSelect(availableIds, selected, unselected, count) ==
    autoSelectLoop(availableIds, selected, Cardinality(selected), unselected, count)

\* The effect would run, find nothing to add and schedule itself again.
EffectSpins ==
    /\ effectPending
    /\ ~autoSelectReturnsEarly(selectedItems, selectedCount)
    /\ autoSelect(artworks, selectedItems, unselectedItems, selectedCount) = selectedItems

\* An event (user input, fetch completion) is handled only between effect runs.
Ready == ~effectPending \/ EffectSpins

AutoSelectEffect ==
    /\ effectPending
    /\ IF autoSelectReturnsEarly(selectedItems, selectedCount)
       THEN /\ effectPending' = FALSE
            /\ UNCHANGED selectedItems
       ELSE /\ selectedItems' =
                  autoSelect(artworks, selectedItems, unselectedItems, selectedCount)
            /\ effectPending' = TRUE
    /\ UNCHANGED <<artworks, selectedCount, unselectedItems, fetchState,
                   lastEvent, prevCount, prevSize, fillPages, toggleHistory>>

\* ------------------------------------------------------------ page loading
RemoveAt(s, i) == SubSeq(s, 1, i - 1) \o SubSeq(s, i + 1, Len(s))

\* loadArtworks up to its first await: setIsLoading(true), the fetch is issued.
loadArtworks(pageNumber) ==
    /\ Len(inflight) < MaxInFlight
    /\ isLoading' = TRUE
    /\ inflight' = Append(inflight, pageNumber)
    /\ latestPending' = TRUE

\* The page-load effect: loadArtworks(currentPage) when currentPage changed.
pageLoadEffect(newPage) ==
    IF newPage # currentPage
    THEN loadArtworks(newPage)
    ELSE UNCHANGED <<isLoading, inflight, latestPending>>

\* The rows a successful response puts on screen.
processedArtworks(pageNumber) == PageIds(pageNumber)

\* Mutant of artworksAfterFailure: the rows parsed before the failure are shown.
artworksPartialPage(pageNumber) == SubSeq(PageIds(pageNumber), 1, 1)

\* What a rejected fetch / failed parse leaves on screen.
artworksAfterFailure(pageNumber) == artworks

\* fillPages after page p became visible.
fillAfterDelivery(p) ==
    IF fillPages >= 0 /\ (p = fillPages + 1 \/ (p = fillPages /\ p >= 1))
    THEN p ELSE -1

\* loadArtworks after the awaits, try branch: inflight[i] resolved and parsed.
FetchSucceeds(i) ==
    /\ Ready
    /\ artworks' = processedArtworks(inflight[i])
    /\ isLoading' = FALSE
    /\ inflight' = RemoveAt(inflight, i)
    /\ latestPending' = (latestPending /\ i # Len(inflight))
    /\ effectPending' = TRUE
    /\ lastEvent' = "fetchOk"
    /\ prevCount' = selectedCount
    /\ prevSize' = Cardinality(selectedItems)
    /\ fillPages' = fillAfterDelivery(inflight[i])
    /\ noteOther
    /\ UNCHANGED <<currentPage, selection>>

\* loadArtworks after the awaits, catch branch: inflight[i] failed.
FetchFails(i) ==
    /\ Ready
    /\ artworks' = artworksAfterFailure(inflight[i])
    /\ isLoading' = FALSE
    /\ inflight' = RemoveAt(inflight, i)
    /\ latestPending' = (latestPending /\ i # Len(inflight))
    /\ lastEvent' = "fetchFail"
    /\ prevCount' = selectedCount
    /\ prevSize' = Cardinality(selectedItems)
    /\ noteOther
    /\ UNCHANGED <<currentPage, selection, effectPending, fillPages>>

handlePageChange(eventPage) ==
    /\ Ready
    /\ LET newPage == eventPage + 1 IN
       /\ currentPage' = newPage
       /\ pageLoadEffect(newPage)
    /\ lastEvent' = "page"
    /\ prevCount' = selectedCount
    /\ prevSize' = Cardinality(selectedItems)
    /\ noteOther
    /\ UNCHANGED <<artworks, selection, effectPending, fillPages>>

\* ------------------------------------------------------- selection handlers
\* Every handler builds new Set objects, so the auto-select effect is scheduled.
manualEdit(kind) ==
    /\ lastEvent' = kind
    /\ effectPending' = TRUE
    /\ prevCount' = selectedCount
    /\ prevSize' = Cardinality(selectedItems)
    /\ fillPages' = -1
    /\ UNCHANGED <<artworks, fetchState>>

\* Mutant of rowSelectUnselected: the id is not deleted from the unselected set.
rowSelectUnselectedKept(id) == unselectedItems

\* Mutant of rowSelectCount: the count is incremented instead of read off the set.
rowSelectCountIncrement(id) == selectedCount + 1

\* Mutant of rowSelectCount: the size of the set before the update.
rowSelectCountStale(id) == Cardinality(selectedItems)

\* handleRowSelect: updatedSelected / updatedUnselected / updatedSelected.size.
rowSelectSelected(id) == selectedItems \cup {id}
rowSelectUnselected(id) == unselectedItems \ {id}
rowSelectCount(id) == Cardinality(rowSelectSelected(id))

handleRowSelect(id) ==
    /\ Ready
    /\ selectedItems' = rowSelectSelected(id)
    /\ unselectedItems' = rowSelectUnselected(id)
    /\ selectedCount' = rowSelectCount(id)
    /\ manualEdit("rowSelect")
    /\ noteToggle("rowSelect", id)

\* Mutant of rowUnselectSelected: the id is not deleted from the selected set.
rowUnselectSelectedKept(id) == selectedItems

\* Mutant of rowUnselectCount: the count is left as it was.
rowUnselectCountKept(id) == selectedCount

\* handleRowUnselect: updatedSelected / updatedUnselected / updatedSelected.size.
rowUnselectSelected(id) == selectedItems \ {id}
rowUnselectUnselected(id) == unselectedItems \cup {id}
rowUnselectCount(id) == Cardinality(rowUnselectSelected(id))

handleRowUnselect(id) ==
    /\ Ready
    /\ selectedItems' = rowUnselectSelected(id)
    /\ unselectedItems' = rowUnselectUnselected(id)
    /\ selectedCount' = rowUnselectCount(id)
    /\ manualEdit("rowUnselect")
    /\ noteToggle("rowUnselect", id)

\* Mutant of pageSelected: the reported rows replace the whole selected set.
pageSelectedReplaces(keep) == SeqToSet(artworks) \cap keep

\* The forEach over artworks shared by handleSelectionChange and the header
\* checkbox: a row for which `keep` holds is added to the selected set and
\* deleted from the unselected one, every other row the other way round.
pageSelected(keep) ==
    (selectedItems \ SeqToSet(artworks)) \cup (SeqToSet(artworks) \cap keep)
pageUnselected(keep) ==
    (unselectedItems \ (SeqToSet(artworks) \cap keep)) \cup (SeqToSet(artworks) \ keep)

\* handleSelectionChange: e.value holds the rows the table reports selected.
handleSelectionChange(value) ==
    /\ Ready
    /\ manualEdit("selectionChange")
    /\ noteOther
    /\ LET currentlySelected == value IN
       /\ selectedItems' = pageSelected(currentlySelected)
       /\ unselectedItems' = pageUnselected(currentlySelected)
       /\ selectedCount' = Cardinality(pageSelected(currentlySelected))

\* onChange of the header checkbox: e.checked decides for every visible row.
headerKeep(checked) == IF checked THEN SeqToSet(artworks) ELSE {}

headerCheckboxOnChange(checked) ==
    /\ Ready
    /\ manualEdit("header")
    /\ noteOther
    /\ selectedItems' = pageSelected(headerKeep(checked))
    /\ unselectedItems' = pageUnselected(headerKeep(checked))
    /\ selectedCount' = Cardinality(pageSelected(headerKeep(checked)))

\* ---------------------------------------------------- bulk select and reset
\* The text of the number input: a sequence of characters.
Digits == <<"0", "1", "2", "3", "4", "5", "6", "7", "8", "9">>
DigitChar(n) == Digits[n + 1]
IsDigit(c) == \E n \in 0..9 : Digits[n + 1] = c
DigitValue(c) == CHOOSE n \in 0..9 : Digits[n + 1] = c

\* parseInt(text, 10) on an optional sign followed by digits: reads digits
\* up to the first character that is not one.
RECURSIVE parseDigits(_, _)
parseDigits(text, acc) ==
    IF text = <<>> \/ ~IsDigit(Head(text)) THEN acc
    ELSE parseDigits(Tail(text), 10 * acc + DigitValue(Head(text)))

parseInt(text) ==
    IF text # <<>> /\ Head(text) = "-"
    THEN 0 - parseDigits(Tail(text), 0)
    ELSE parseDigits(text, 0)

\* `numberInputRef.current?.value || '0'`
inputOrZero(text) == IF text = <<>> THEN <<"0">> ELSE text

\* What the user can have typed: nothing, a count up to MaxTarget, a count
\* with a fraction, or a negative count.
InputValues ==
    {<<>>, <<"-", "1">>, <<"1", ".", "5">>}
        \cup {<<DigitChar(n)>> : n \in 0..MaxTarget}

\* fillPages right after a bulk submit: the page on screen, if it is page 1.
fillAtSubmit ==
    IF artworks = <<>> THEN 0 ELSE IF artworks = PageIds(1) THEN 1 ELSE -1

handleSubmitSelection(inputValue) ==
    /\ Ready
    /\ LET targetCount == parseInt(inputOrZero(inputValue)) IN
       /\ selectedItems' = {}
       /\ unselectedItems' = {}
       /\ selectedCount' = targetCount
    /\ currentPage' = 1
    /\ pageLoadEffect(1)
    /\ effectPending' = TRUE
    /\ lastEvent' = "submit"
    /\ prevCount' = selectedCount
    /\ prevSize' = Cardinality(selectedItems)
    /\ fillPages' = fillAtSubmit
    /\ noteOther
    /\ UNCHANGED artworks

\* Mutant of resetSelections: setUnselectedItems(new Set()) is missing.
resetKeepsUnselected ==
    /\ Ready
    /\ selectedItems' = {}
    /\ selectedCount' = 0
    /\ effectPending' = TRUE
    /\ lastEvent' = "reset"
    /\ prevCount' = selectedCount
    /\ prevSize' = Cardinality(selectedItems)
    /\ fillPages' = -1
    /\ noteOther
    /\ UNCHANGED <<artworks, fetchState, unselectedItems>>

resetSelections ==
    /\ Ready
    /\ selectedItems' = {}
    /\ unselectedItems' = {}
    /\ selectedCount' = 0
    /\ effectPending' = TRUE
    /\ lastEvent' = "reset"
    /\ prevCount' = selectedCount
    /\ prevSize' = Cardinality(selectedItems)
    /\ fillPages' = -1
    /\ noteOther
    /\ UNCHANGED <<artworks, fetchState>>

\* ------------------------------------------------------------ what is shown
currentPageItemIds == artworks
selectedOnCurrentPage ==
    SelectSeq(currentPageItemIds,
              LAMBDA id : id \in selectedItems /\ id \notin unselectedItems)
\* Mutant of areAllCurrentPageItemsSelected: the `length > 0` test is missing.
areAllNoLengthTest == Len(selectedOnCurrentPage) = Len(currentPageItemIds)

areAllCurrentPageItemsSelected ==
    Len(selectedOnCurrentPage) = Len(currentPageItemIds) /\ Len(currentPageItemIds) > 0

\* The header checkbox as rendered: `checked` is its only input, so it shows
\* one of two states.
headerState == IF areAllCurrentPageItemsSelected THEN "ALL" ELSE "NONE"

\* The rows handed to the table as its selection.
getSelectedArtworks ==
    SelectSeq(artworks, LAMBDA id : id \in selectedItems /\ id \notin unselectedItems)

\* -------------------------------------------------------------- the system
\* The state after the first render and its effects: loadArtworks(1) has been
\* called, the auto-select effect has returned at `!selectedCount`.
Init ==
    /\ artworks = <<>>
    /\ isLoading = TRUE
    /\ currentPage = 1
    /\ selectedCount = 0
    /\ selectedItems = {}
    /\ unselectedItems = {}
    /\ inflight = <<1>>
    /\ latestPending = TRUE
    /\ effectPending = FALSE
    /\ lastEvent = "mount"
    /\ prevCount = 0
    /\ prevSize = 0
    /\ fillPages = -1
    /\ lastId = 0
    /\ lastPair = "none"

FetchSucceedsSome == \E i \in 1..Len(inflight) : FetchSucceeds(i)
FetchFailsSome == \E i \in 1..Len(inflight) : FetchFails(i)
PageChange == \E eventPage \in 0..(NumPages - 1) : handlePageChange(eventPage)
RowSelect == \E id \in SeqToSet(artworks) : handleRowSelect(id)
RowUnselect == \E id \in SeqToSet(artworks) : handleRowUnselect(id)
\* The table reports rows of its `value` and `selection` props: visible rows.
SelectionChange == \E value \in SUBSET SeqToSet(artworks) : handleSelectionChange(value)
HeaderToggle == \E checked \in BOOLEAN : headerCheckboxOnChange(checked)
SubmitSelection == \E inputValue \in InputValues : handleSubmitSelection(inputValue)

Next ==
    \/ AutoSelectEffect
    \/ FetchSucceedsSome
    \/ FetchFailsSome
    \/ PageChange
    \/ RowSelect
    \/ RowUnselect
    \/ SelectionChange
    \/ HeaderToggle
    \/ SubmitSelection
    \/ resetSelections

Spec == Init /\ [][Next]_vars

TypeOK ==
    /\ selectedItems \subseteq Ids
    /\ unselectedItems \subseteq Ids
    /\ selectedCount \in -1..MaxTarget
    /\ currentPage \in Pages
    /\ Len(inflight) <= MaxInFlight
    /\ fillPages \in -1..NumPages

\* ------------------------------------------------------------------ claims
count == Cardinality(selectedItems)
visibleIds == SeqToSet(artworks)
undecidedVisible == visibleIds \ (selectedItems \cup unselectedItems)
\* The first n record ids of the collection, in collection order.
FirstRecords(n) == {id \in Ids : id <= n}
\* How many records pages 1..k hold.
RecordsOnPages(k) == Min(k * PageSize, TotalRecords)

\* C1 Disjointness: in every reachable state no record id is in both
\* selectedItems and unselectedItems.
Disjointness == selectedItems \cap unselectedItems = {}

\* C1 witness: after a row was unselected both sets hold ids and the engine
\* has run.
DisjointnessWitness ==
    /\ lastEvent = "rowUnselect"
    /\ ~effectPending
    /\ selectedItems # {}
    /\ unselectedItems # {}

\* C2 Bulk fill correctness: after a bulk submit of N made with page 1 or no
\* page on screen, and pages 1, 2, ... becoming visible in order with no manual
\* edit, once the delivered pages hold at least N records and the engine has
\* run, selectedItems is exactly the first N record ids and count() = N.
BulkFillCorrect ==
    (/\ fillPages >= 1
     /\ selectedCount >= 0
     /\ RecordsOnPages(fillPages) >= selectedCount
     /\ ~effectPending)
        => (selectedItems = FirstRecords(selectedCount) /\ count = selectedCount)

\* C2 witness: N is one more than a page holds, page 2 was delivered after
\* page 1 and the engine has completed the fill.
BulkFillWitness ==
    /\ fillPages = 2
    /\ selectedCount = PageSize + 1
    /\ lastEvent = "fetchOk"
    /\ ~effectPending
    /\ selectedItems = FirstRecords(PageSize + 1)

\* C3 Stale-response discard: a response is applied to the visible page only
\* if it answers the most recently issued request; a response to an older
\* request leaves artworks as it is.
StaleResponseDiscarded ==
    [][\A i \in 1..Len(inflight) :
          (FetchSucceeds(i) /\ ~(i = Len(inflight) /\ latestPending))
              => artworks' = artworks]_vars

\* C4 The engine never overrides a user decision and never shrinks the
\* selection: an engine run leaves unselectedItems and selectedCount unchanged,
\* keeps every selected id and adds no id of unselectedItems; page requests and
\* page arrivals change none of the three.
EngineNeverOverrides ==
    [][/\ AutoSelectEffect =>
            /\ unselectedItems' = unselectedItems
            /\ selectedCount' = selectedCount
            /\ selectedItems \subseteq selectedItems'
            /\ (selectedItems' \ selectedItems) \cap unselectedItems = {}
       /\ (FetchSucceedsSome \/ FetchFailsSome \/ PageChange) =>
            UNCHANGED selection]_vars

\* C4 witness: a page arrived and the engine ran while a bulk count is set and
\* a row of the visible page is one the user unselected; it is still unselected.
EngineNeverOverridesWitness ==
    /\ lastEvent = "fetchOk"
    /\ ~effectPending
    /\ selectedCount > 0
    /\ visibleIds \cap unselectedItems # {}
    /\ visibleIds \cap selectedItems # {}

\* C3, the race of the spec's scenario carried to its end: no fetch is left
\* in flight, the last response was applied, and the page on screen is an
\* older request's page, not currentPage.
StaleResponseShown ==
    /\ inflight = <<>>
    /\ lastEvent = "fetchOk"
    /\ artworks # PageIds(currentPage)

DeselectedAtTarget ==
    /\ lastEvent = "rowUnselect"
    /\ prevCount > 0
    /\ prevSize = prevCount
    /\ ~effectPending

FillSaturation ==
    /\ [][(AutoSelectEffect /\ (selectedCount = 0 \/ count >= selectedCount))
            => UNCHANGED selection]_vars
    /\ []((/\ lastEvent = "submit"
           /\ ~effectPending
           /\ selectedCount >= 0
           /\ selectedCount <= Len(artworks))
            => selectedItems = SeqToSet(SubSeq(artworks, 1, selectedCount)))

\* C7 witness: the bulk count is met, a new page with undecided rows has
\* arrived and the engine has run on it.
FillSaturationWitness ==
    /\ lastEvent = "fetchOk"
    /\ ~effectPending
    /\ fillPages = 2
    /\ selectedCount > 0
    /\ count = selectedCount
    /\ undecidedVisible = visibleIds

\* C8 A failed page fetch changes none of selectedItems, unselectedItems,
\* selectedCount, leaves the visible rows as they are and schedules no engine
\* run.
FailedFetchLeavesSelection ==
    [][FetchFailsSome => UNCHANGED <<selection, artworks, effectPending>>]_vars

\* C8 witness: a fetch failed while a bulk count was still unmet and a page
\* other than the requested one is on screen.
FailedFetchWitness ==
    /\ lastEvent = "fetchFail"
    /\ selectedCount > count
    /\ artworks # <<>>
    /\ artworks # PageIds(currentPage)

\* What a page-level edit with the reported set `chosen` must leave behind.
PageEditPost(chosen) ==
    \A id \in Ids :
        IF id \in visibleIds
        THEN IF id \in chosen
             THEN id \in selectedItems' /\ id \notin unselectedItems'
             ELSE id \notin selectedItems' /\ id \in unselectedItems'
        ELSE /\ (id \in selectedItems') = (id \in selectedItems)
             /\ (id \in unselectedItems') = (id \in unselectedItems)

\* C9 Page-level edits touch only the visible page: handleSelectionChange, and
\* the header checkbox with the visible ids (checked) or none (unchecked), put
\* every visible id in selectedItems and out of unselectedItems if it is
\* reported selected, the other way round if not, and leave the membership of
\* every id that is not visible unchanged.
PageEditTouchesOnlyVisible ==
    [][/\ \A value \in SUBSET visibleIds :
            handleSelectionChange(value) => PageEditPost(value)
       /\ \A checked \in BOOLEAN :
            headerCheckboxOnChange(checked)
                => PageEditPost(IF checked THEN visibleIds ELSE {})]_vars

\* C9 witness: the header checkbox cleared the visible page while rows of
\* another page are selected and rows of another page are unselected.
PageEditWitness ==
    /\ lastEvent = "header"
    /\ visibleIds # {}
    /\ visibleIds \subseteq unselectedItems
    /\ selectedItems \ visibleIds # {}
    /\ unselectedItems \ visibleIds # {}

\* headerState as section 4.3 of the specification defines it.
headerStateSpecified ==
    IF visibleIds # {} /\ visibleIds \subseteq selectedItems THEN "ALL"
    ELSE IF visibleIds \cap selectedItems = {} THEN "NONE"
    ELSE "PARTIAL"

Settled == ~effectPending \/ EffectSpins

\* C11 Reset: resetSelections empties selectedItems and unselectedItems and
\* sets selectedCount to 0; from then on, until the next bulk submit,
\* selectedCount never exceeds count(), so no engine run adds an id; a bulk
\* submit made right after a reset leaves the empty sets and the typed count,
\* as it does on the initial state, and the fill that follows (pages in order,
\* no manual edit) is the first min(N, records delivered) ids, whatever
\* happened before the submit.
ResetRestoresFresh ==
    /\ [][/\ resetSelections =>
               (selectedItems' = {} /\ unselectedItems' = {} /\ selectedCount' = 0)
          /\ (selectedCount <= count /\ ~SubmitSelection) =>
               (selectedCount' <= Cardinality(selectedItems'))
          /\ (AutoSelectEffect /\ selectedCount <= count) => UNCHANGED selection
          /\ \A inputValue \in InputValues :
               (handleSubmitSelection(inputValue) /\ lastEvent = "reset") =>
                   /\ selectedItems' = {} /\ unselectedItems' = {}
                   /\ selectedCount' = parseInt(inputOrZero(inputValue))]_vars
    /\ []((fillPages >= 0 /\ selectedCount >= 0 /\ Settled) =>
            /\ selectedItems =
                 FirstRecords(Min(selectedCount, RecordsOnPages(fillPages)))
            /\ unselectedItems = {})

\* C11 witness: a reset was made while a bulk count, selected ids and
\* unselected ids were present on other pages or this one; the engine has run;
\* everything is empty and the rows on screen are undecided.
ResetWitness ==
    /\ lastEvent = "reset"
    /\ prevCount > 0
    /\ prevSize > 0
    /\ ~effectPending
    /\ selectedItems = {} /\ unselectedItems = {} /\ selectedCount = 0
    /\ undecidedVisible # {}

\* C12 Idempotent toggle: a row select repeated on the same row, and a row
\* unselect repeated on the same row, change none of selectedItems,
\* unselectedItems, selectedCount; nor do the engine runs that follow the
\* first or the second toggle.
IdempotentToggle ==
    [][/\ \A id \in visibleIds :
            (handleRowSelect(id) /\ lastEvent = "rowSelect" /\ lastId = id)
                => UNCHANGED selection
       /\ \A id \in visibleIds :
            (handleRowUnselect(id) /\ lastEvent = "rowUnselect" /\ lastId = id)
                => UNCHANGED selection
       /\ (AutoSelectEffect /\ lastId # 0) => UNCHANGED selection]_vars

\* C12 witness: the same row was selected twice in a row, the engine has run,
\* and count and size are what they were after the first select.
IdempotentToggleWitness ==
    /\ lastPair = "same"
    /\ lastEvent = "rowSelect"
    /\ ~effectPending
    /\ lastId \in selectedItems
    /\ prevCount = selectedCount
    /\ prevSize = count
    /\ unselectedItems # {}

\* C13 Toggle inverse: after a row select followed by an unselect of the same
\* row the id is in unselectedItems and not in selectedItems; after an
\* unselect followed by a select of the same row it is in selectedItems and
\* not in unselectedItems; both also after the engine runs that follow.
ToggleInverse ==
    lastPair = "inverse" =>
        IF lastEvent = "rowUnselect"
        THEN lastId \in unselectedItems /\ lastId \notin selectedItems
        ELSE lastId \in selectedItems /\ lastId \notin unselectedItems

\* C13 witness: a row was selected, then unselected, the engine has run, and
\* another row of the page is still undecided.
ToggleInverseWitness ==
    /\ lastPair = "inverse"
    /\ lastEvent = "rowUnselect"
    /\ ~effectPending
    /\ lastId \in unselectedItems
    /\ undecidedVisible # {}

\* C14 Auto-fill terminates: the chain of engine runs caused by the engine's
\* own setSelectedItems ends; no state is reached in which the engine is
\* scheduled, finds nothing to add and schedules itself again.
AutoFillTerminates == ~EffectSpins

\* The undecided ids of the visible page, in visible order.
undecidedSeq ==
    SelectSeq(artworks,
              LAMBDA id : id \notin selectedItems /\ id \notin unselectedItems)

\* C15 Single engine run: with selectedCount > 0 and count() < selectedCount,
\* one engine run adds exactly the first min(selectedCount - count(), u) of the
\* u undecided visible ids, in visible order; afterwards count() does not
\* exceed selectedCount, and either it equals selectedCount or no visible id
\* is undecided; every added id is a visible one.
SingleEngineRun ==
    [][(AutoSelectEffect /\ selectedCount > 0 /\ count < selectedCount) =>
          LET n == Min(selectedCount - count, Len(undecidedSeq))
              after == Cardinality(selectedItems')
          IN /\ selectedItems' = selectedItems \cup SeqToSet(SubSeq(undecidedSeq, 1, n))
             /\ after <= selectedCount
             /\ after = selectedCount \/ visibleIds \subseteq (selectedItems' \cup unselectedItems)
             /\ (selectedItems' \ selectedItems) \subseteq visibleIds]_vars

\* C15 witness: after a bulk submit the engine has run once and stopped in the
\* middle of the page: the count is met and later rows are still undecided.
SingleEngineRunWitness ==
    /\ lastEvent = "submit"
    /\ effectPending
    /\ selectedCount > 0
    /\ count = selectedCount
    /\ selectedItems = SeqToSet(SubSeq(artworks, 1, selectedCount))
    /\ undecidedVisible # {}

\* C16 'Select first N' selects the first N records overall whichever page is
\* on screen at the submit: every id added by the engine run that the submit
\* itself triggers, before any response arrives, is one of the first
\* selectedCount records of the collection (no id of a later page that
\* happens to be on screen is auto-selected).
SelectFirstNOverall ==
    [][(AutoSelectEffect /\ lastEvent = "submit") =>
          (selectedItems' \ selectedItems) \subseteq FirstRecords(selectedCount)]_vars

\* C17 The 'Selected Items' figure shown to the user is the number of ids in
\* selectedItems, over all pages.
ShownCountIsTotal == Len(getSelectedArtworks) = Cardinality(selectedItems)

\* C18 The loading flag tracks the fetches in flight: isLoading is true
\* whenever at least one page fetch has not settled.
LoadingTracksInflight == (inflight # <<>>) => isLoading

=============================================================================
